---- MODULE Spec2Model ----
(***************************************************************************)
(* Evidence collection pipeline of discord-rag-bot.                        *)
(*                                                                         *)
(*   program = "monitor" : EvidenceCollectionSystem of process_submission.py*)
(*                        (run_monitoring_loop / monitor_spreadsheet).     *)
(*   program = "service" : EvidenceCollectionService of app.py (the web    *)
(*                        service and its request handlers).               *)
(*                                                                         *)
(* The two are separate processes; a behaviour of Spec runs one of them    *)
(* against a response sheet that the environment edits.  LoopSpec is the   *)
(* polling loop with the progress of its process; FunctionSpec            *)
(* (program = "functions") calls the functions of the three source files,  *)
(* bot.py included, one by one on arguments drawn at the start.            *)
(*                                                                         *)
(* A Python str is a finite sequence of symbols; a row is a sequence of    *)
(* str.  The tag separator ", " is the two symbols "," and " ".            *)
(***************************************************************************)
EXTENDS Integers, Sequences, FiniteSets, TLC

\* ------------------------------------------------------------------ bounds

\* Rows the environment appends to the sheet over a behaviour.
MaxRows == 2

\* Records the web service holds when the model stops sending it requests
\* (a request accepted below the bound may still add several).
MaxRecords == 1

\* Length of the longest text the function calls are made with.
MaxLen == 4

\* Fields of the longest row the function calls are made with.
MaxFields == 12

\* ----------------------------------------------------------------- strings

Empty == <<>>

Sep == <<",", " ">>

Whitespace == {" ", "\n", "\t"}

\* str.strip() == ''
IsBlank(text) == \A i \in 1..Len(text) : text[i] \in Whitespace

\* Index of the first occurrence of Sep in s at or after position i, 0 if none.
RECURSIVE FindSep(_, _)
FindSep(s, i) ==
    IF i + Len(Sep) - 1 > Len(s) THEN 0
    ELSE IF SubSeq(s, i, i + Len(Sep) - 1) = Sep THEN i
    ELSE FindSep(s, i + 1)

\* str.split(', ')
RECURSIVE Split(_)
Split(s) ==
    LET i == FindSep(s, 1)
    IN  IF i = 0 THEN <<s>>
        ELSE <<SubSeq(s, 1, i - 1)>> \o Split(SubSeq(s, i + Len(Sep), Len(s)))

\* A variant of ParseTags that splits the empty field too.
ParseTags_unguarded(field) == Split(field)

\* row_data[k].split(', ') if row_data[k] else []
ParseTags(field) == IF field # Empty THEN Split(field) ELSE <<>>

\* ------------------------------------------------------------------- rows

\* The form-response header (row 1 of the sheet).
HeaderRow ==
    << <<"Timestamp">>, <<"Submitter">>, <<"Title">>, <<"AFF_tags">>,
       <<"NEG_tags">>, <<"SourceURL">>, <<"UpdateDate">>, <<"EngSource">>,
       <<"Quote">>, <<"Attachment">>, <<"Remark">> >>

\* An 11-field row: tags "t1, t2", no negative tags, no attachment, a remark.
RowA ==
    << <<"2024-01-01">>, <<"Alice">>, <<"Title1">>,
       <<"t", "1", ",", " ", "t", "2">>, Empty, <<"http://x">>,
       <<"2024-01-01">>, <<"Src">>, <<"q", "1">>, Empty, <<"r">> >>

\* A 12-field row with a blank quote, a leading empty tag and an attachment.
RowB ==
    << <<"2024-01-02">>, <<"Bob">>, <<"Title2">>,
       <<",", " ", "b">>, <<"n">>, <<"http://y">>,
       <<"2024-01-02">>, <<"Src2">>, <<" ">>, <<"file">>, Empty, <<"extra">> >>

\* A 9-field row.
RowC ==
    << <<"2024-01-03">>, <<"Carol">>, <<"Title3">>, Empty, Empty,
       <<"http://z">>, <<"2024-01-03">>, <<"Src3">>, <<"q", "3">> >>

RowChoices == {RowA, RowB, RowC}

\* ----------------------------------------------------------- optional values

None == [kind |-> "None"]

Some(v) == [kind |-> "Some", val |-> v]

\* ---------------------------------------------------------------- extraction

MinFields == 11

\* The keys of a submission dictionary.
SubmissionKeys ==
    {"timestamp", "submitter", "title", "aff_tags", "neg_tags", "source_url",
     "update_date", "eng_source", "quote", "attachment", "remark"}

\* The dictionary has every key the functions read (data['quote'], ...).
WellFormed(data) == SubmissionKeys \subseteq DOMAIN data

\* A submission_data of a request that names a title and nothing else.
IncompleteSubmission == [title |-> <<"Title9">>]

\* A variant of extract_submission_data that pads a short row with empty
\* fields instead of rejecting it.
extract_submission_data_padded(row_data) ==
    LET f(k) == IF k <= Len(row_data) THEN row_data[k] ELSE Empty
    IN  IF Len(row_data) < 9 THEN None
        ELSE Some([timestamp   |-> f(1),
                   submitter   |-> f(2),
                   title       |-> f(3),
                   aff_tags    |-> ParseTags(f(4)),
                   neg_tags    |-> ParseTags(f(5)),
                   source_url  |-> f(6),
                   update_date |-> f(7),
                   eng_source  |-> f(8),
                   quote       |-> f(9),
                   attachment  |-> f(10),
                   remark      |-> f(11)])

\* extract_submission_data: None for a row of fewer than 11 fields, else the
\* submission dictionary (fields 0..10 of the Python list are 1..11 here).
extract_submission_data(row_data) ==
    IF Len(row_data) < MinFields THEN None
    ELSE Some([timestamp   |-> row_data[1],
               submitter   |-> row_data[2],
               title       |-> row_data[3],
               aff_tags    |-> ParseTags(row_data[4]),
               neg_tags    |-> ParseTags(row_data[5]),
               source_url  |-> row_data[6],
               update_date |-> row_data[7],
               eng_source  |-> row_data[8],
               quote       |-> row_data[9],
               attachment  |-> row_data[10],
               remark      |-> row_data[11]])

\* --------------------------------------------------------------- translation

\* What one call of the translation provider can do.
ProviderOutcomes == {"ok", "no_translations", "raise"}

\* The translatedText the provider returns for a text.
Translated(text) == <<"EN:">> \o text

\* A variant of translate_text that gives the empty string when the provider
\* fails.
translate_text_blank(text, provider) ==
    IF text = Empty \/ IsBlank(text) THEN text
    ELSE IF provider = "ok" THEN Translated(text)
    ELSE Empty

\* translate_text: the text itself when it is empty or blank (no provider
\* call), when the provider raises, or when its response has no translations.
translate_text(text, provider) ==
    IF text = Empty \/ IsBlank(text) THEN text
    ELSE IF provider = "ok" THEN Translated(text)
    ELSE text

\* A variant of the count below for a translate_text that calls the provider
\* a second time after a failure.
ProviderRoundTrips_retry(text, provider) ==
    IF text = Empty \/ IsBlank(text) THEN 0
    ELSE IF provider = "ok" THEN 1
    ELSE 2

\* The calls of translations().list(...).execute() one translate_text makes:
\* none on the early return, else the one of the try body, whatever it does.
ProviderRoundTrips(text, provider) ==
    IF text = Empty \/ IsBlank(text) THEN 0 ELSE 1

\* EvidenceCollectionBot.translate_text: as translate_text, and the text
\* itself when the bot has no Google credentials.
bot_translate_text(text, credentials, provider) ==
    IF text = Empty \/ IsBlank(text) \/ ~credentials THEN text
    ELSE IF provider = "ok" THEN Translated(text)
    ELSE text

\* ---------------------------------------------------------------- formatting
\* The Japanese literals of the source are written as ASCII symbols:
\* "[DOCNO:" the document-number label, "ATTACHMENT:" the attachment label,
\* "NONE" the no-attachment sentinel, "*" the remark marker,
\* "[SUBMITTER]" and "[SOURCE]" the footer labels; "[FENCE]" is the
\* three-backquote code fence.

\* The concatenation of prefix \o tag \o suffix over the tags, in order.
RECURSIVE JoinTags(_, _, _)
JoinTags(tags, prefix, suffix) ==
    IF tags = <<>> THEN <<>>
    ELSE prefix \o Head(tags) \o suffix \o JoinTags(Tail(tags), prefix, suffix)

\* data['aff_tags'] and data['aff_tags'][0]
Renders(tags) == tags # <<>> /\ tags[1] # Empty

\* f"{entry_number}. {data['title']} ({data['submitter']})"
TitleLine(entry_number, data) ==
    <<ToString(entry_number), ".", " ">> \o data.title \o <<" ", "(">>
        \o data.submitter \o <<")">>

\* The formatted_content dictionary add_to_docs builds.
FormatDocument(entry_number, data, translated_quote) ==
    [title   |-> TitleLine(entry_number, data),
     tags    |-> <<"#">> \o data.submitter
                 \o (IF Renders(data.aff_tags)
                     THEN <<" ", "[AFF]">> \o JoinTags(data.aff_tags, <<" ", "#">>, <<>>)
                     ELSE <<>>)
                 \o (IF Renders(data.neg_tags)
                     THEN <<" ", "[NEG]">> \o JoinTags(data.neg_tags, <<" ", "#">>, <<>>)
                     ELSE <<>>),
     remark  |-> data.remark,
     table_content |->
         <<"[DOCNO:", ToString(entry_number), "]", " ">> \o data.update_date
         \o <<":", " ">> \o data.eng_source \o <<"\n">>
         \o data.source_url \o <<"\n", "\n">>
         \o <<"[Original (Japanese)]", "\n">> \o data.quote \o <<"\n", "\n">>
         \o <<"[English Translation]", "\n">> \o translated_quote,
     attachment |-> data.attachment]

\* The content of the discord_payload send_discord_notification builds.
FormatNotification(entry_number, data, translated_quote) ==
    LET tags_text ==
            (IF Renders(data.aff_tags)
             THEN <<"[AFF]">> \o JoinTags(data.aff_tags, <<"#">>, <<" ">>)
             ELSE <<>>)
            \o (IF Renders(data.aff_tags) /\ Renders(data.neg_tags)
                THEN <<"\n">> ELSE <<>>)
            \o (IF Renders(data.neg_tags)
                THEN <<"[NEG]">> \o JoinTags(data.neg_tags, <<"#">>, <<" ">>)
                ELSE <<>>)
        attachment_text ==
            <<"\n", "ATTACHMENT:", "\n">>
            \o (IF data.attachment # Empty THEN data.attachment ELSE <<"NONE">>)
        remark_text ==
            IF data.remark # Empty THEN <<"\n", "*">> \o data.remark ELSE <<>>
        message_content ==
            <<"\n">> \o tags_text \o <<"\n", "\n">>
            \o <<"[FENCE]">> \o data.quote \o <<"[FENCE]", "\n", "\n">>
            \o <<"**English Translation:**", "\n">>
            \o <<"[FENCE]">> \o translated_quote \o <<"[FENCE]">>
            \o remark_text
            \o attachment_text \o <<"\n", "\n">>
            \o <<"[SUBMITTER]">> \o data.submitter \o <<"\n">>
            \o <<"[SOURCE]">> \o data.update_date \o <<"\n">>
            \o data.source_url
    IN  TitleLine(entry_number, data) \o <<"\n">> \o message_content

\* What the webhook POST of one notification can do: accepted (204), another
\* status, or requests.post raising.
HttpOutcomes == {"204", "500", "raise"}

\* A variant of add_to_docs without its try/except: a fault in the body
\* escapes to the caller.
add_to_docs_uncaught(entry_number, data, provider, fault) ==
    [raised  |-> fault,
     content |-> IF fault THEN None
                 ELSE Some(FormatDocument(entry_number, data,
                                          translate_text(data.quote, provider)))]

\* EvidenceCollectionSystem.add_to_docs.  fault: an exception raised inside
\* the try body; it is caught and logged, so nothing is raised to the caller.
add_to_docs(entry_number, data, provider, fault) ==
    [raised  |-> FALSE,
     content |-> IF fault THEN None
                 ELSE Some(FormatDocument(entry_number, data,
                                          translate_text(data.quote, provider)))]

\* EvidenceCollectionSystem.send_discord_notification: the payload is posted;
\* a status other than 204 is logged, an exception of the POST is caught.
send_discord_notification(entry_number, data, provider, http) ==
    [raised  |-> FALSE,
     payload |-> FormatNotification(entry_number, data,
                                    translate_text(data.quote, provider)),
     sent    |-> (http = "204")]

\* f"entry_{n}"
EntryId(n) == <<"entry_", ToString(n)>>

\* prepare_structured_data (the same in both programs); processed_at, the
\* wall-clock time of the call, is left out of the record.
prepare_structured_data(data, row_number, provider_title, provider_quote) ==
    [id        |-> EntryId(row_number),
     timestamp |-> data.timestamp,
     submitter |-> data.submitter,
     title     |-> [original   |-> data.title,
                    translated |-> translate_text(data.title, provider_title)],
     quote     |-> [original   |-> data.quote,
                    translated |-> translate_text(data.quote, provider_quote)],
     tags      |-> [affirmative |-> data.aff_tags, negative |-> data.neg_tags],
     source    |-> [url |-> data.source_url, update_date |-> data.update_date,
                    eng_source |-> data.eng_source],
     metadata  |-> [attachment |-> data.attachment, remark |-> data.remark]]

\* ------------------------------------------------ EvidenceCollectionBot (bot.py)

\* Characters of a quote shown in an embed field.
QuoteLimit == 1000

\* f"{quote[:1000]}{'...' if len(quote) > 1000 else ''}"
Ellipsis(text) ==
    IF Len(text) > QuoteLimit
    THEN SubSeq(text, 1, QuoteLimit) \o <<"...">>
    ELSE text

\* embed.add_field(name=..., value=...)
EmbedField(name, value) == [name |-> name, value |-> value]

\* The tags_text of process_evidence_notification.
BotTagsText(data) ==
    (IF Renders(data.aff_tags)
     THEN <<"[AFF]", " ">> \o JoinTags(data.aff_tags, <<"#">>, <<" ">>)
     ELSE <<>>)
    \o (IF Renders(data.aff_tags) /\ Renders(data.neg_tags)
        THEN <<"\n">> ELSE <<>>)
    \o (IF Renders(data.neg_tags)
        THEN <<"[NEG]", " ">> \o JoinTags(data.neg_tags, <<"#">>, <<" ">>)
        ELSE <<>>)

\* EvidenceCollectionBot.process_evidence_notification: the embed it sends
\* to the channel (its colour and timestamp are left out).
process_evidence_notification(entry_number, data, credentials, provider) ==
    LET original_quote == data.quote
        translated_quote == bot_translate_text(original_quote, credentials, provider)
        tags_text == BotTagsText(data)
    IN  [title  |-> <<ToString(entry_number), ".", " ">> \o data.title,
         description |-> <<"**Submitter:**", " ">> \o data.submitter,
         fields |->
             (IF tags_text # Empty
              THEN <<EmbedField("Tags", tags_text)>> ELSE <<>>)
             \o (IF original_quote # Empty
                 THEN <<EmbedField("Original Quote (Japanese)",
                                   <<"[FENCE]">> \o Ellipsis(original_quote)
                                   \o <<"[FENCE]">>)>>
                 ELSE <<>>)
             \o (IF translated_quote # Empty /\ translated_quote # original_quote
                 THEN <<EmbedField("English Translation",
                                   <<"[FENCE]">> \o Ellipsis(translated_quote)
                                   \o <<"[FENCE]">>)>>
                 ELSE <<>>)
             \o <<EmbedField("Source", data.eng_source),
                  EmbedField("Update Date", data.update_date)>>
             \o (IF data.source_url # Empty
                 THEN <<EmbedField("URL", data.source_url)>> ELSE <<>>)
             \o (IF data.attachment # Empty
                 THEN <<EmbedField("Attachments", data.attachment)>> ELSE <<>>)
             \o (IF data.remark # Empty
                 THEN <<EmbedField("Remarks", <<"*">> \o data.remark)>>
                 ELSE <<>>)]

\* ------------------------------------------------------------------- state

VARIABLES
    program,             \* "monitor" or "service": the process that runs
    sheet,               \* the response sheet: rows [id, data], header first
    next_id,             \* identity given to the next appended row
    deleted,             \* a row has been deleted from the sheet
    pc,                  \* position of the running program
    last_processed_row,  \* EvidenceCollectionSystem.last_processed_row
    structured_data,     \* self.structured_data of the running program
    all_rows,            \* monitor_spreadsheet: the rows fetched by the cycle
    row_index,           \* monitor_spreadsheet: the loop variable
    submission_data,     \* process_submission: the extracted submission
    docs_result,         \* process_submission: what add_to_docs did
    discord_result,      \* process_submission: what the notification did
    result,              \* value returned by the last process_submission
    discord_webhook_url, \* "set" or "unset": self.discord_webhook_url
    pending,             \* service: calls the request has yet to make
    entry_number,        \* service: entry_number of the current call
    calls,               \* history: rows passed to process_submission
    returned,            \* history: row numbers whose call has returned
    docs_for,            \* history: row numbers add_to_docs was called for
    notes_for,           \* history: row numbers a notification was built for
    cycle_outcome,       \* history: how the most recent polling cycle ended
    cycle_start_last,    \* history: last_processed_row when the cycle began
    missed,              \* history: ids of rows that were new in abandoned cycles
    arg,                 \* function calls: the argument the calls are made with
    applied,             \* function calls: the function last applied, and what
                         \* the services it called did
    ret,                 \* function calls: the value it returned
    round_trips,         \* function calls: provider round trips it made
    export               \* the last export of structured_data: the response
                         \* of the endpoint or the file written

vars == <<program, sheet, next_id, deleted, pc, last_processed_row,
          structured_data, all_rows, row_index, submission_data, docs_result,
          discord_result, result, discord_webhook_url, pending, entry_number,
          calls, returned, docs_for, notes_for,
          cycle_outcome, cycle_start_last, missed,
          arg, applied, ret, round_trips, export>>

envVars == <<sheet, next_id, deleted, discord_webhook_url>>

svcVars == <<pending, entry_number>>

rowVars == <<submission_data, docs_result, discord_result, result, svcVars>>

histVars == <<calls, returned, docs_for, notes_for>>

cycleVars == <<cycle_outcome, cycle_start_last, missed>>

callVars == <<arg, applied, ret, round_trips>>

Max(a, b) == IF a >= b THEN a ELSE b

\* Positions inside monitor_spreadsheet.
InCycle == {"check", "extract", "docs", "discord", "prepare", "advance"}

\* -------------------------------------------------- monitor_spreadsheet, pure

\* A variant of the test of line 102 that lets a lone header row through.
IsHeaderOnly_strict(rows) == Len(rows) < 1

\* len(all_rows) <= 1
IsHeaderOnly(rows) == Len(rows) <= 1

\* A variant of the test of line 108 that always takes the branch.
HasNewRows_always(current_row_count, last) == TRUE

\* current_row_count > self.last_processed_row
HasNewRows(current_row_count, last) == current_row_count > last

\* A variant of the range of line 110 that starts at the offset itself.
NewRowRange_inclusive(last, current_row_count) == Max(2, last) .. current_row_count

\* A variant of the range of line 110 that starts one row too late once the
\* offset is set.
NewRowRange_skip(last, current_row_count) ==
    (IF last = 0 THEN 2 ELSE last + 2) .. current_row_count

\* range(max(2, last + 1), current_row_count + 1)
NewRowRange(last, current_row_count) == Max(2, last + 1) .. current_row_count

\* A variant of line 114 that stores the index of the last row, 0-based.
NewOffset_zero_based(current_row_count) == current_row_count - 1

\* self.last_processed_row = current_row_count
NewOffset(current_row_count) == current_row_count

\* Ids of the data rows of a sheet that lie after the offset.
NewIds(rows, last) ==
    {rows[i].id : i \in Max(2, last + 1) .. Len(rows)}

\* Ids of the data rows (index >= 2) of a sheet.
DataIds(rows) == {rows[i].id : i \in 2 .. Len(rows)}

\* -------------------------------------------------------------------- Init

Init ==
    /\ program \in {"monitor", "service"}
    /\ sheet = << [id |-> 0, data |-> HeaderRow] >>
    /\ next_id = 1
    /\ deleted = FALSE
    /\ pc = (IF program = "monitor" THEN "poll" ELSE "idle")
    /\ discord_webhook_url \in (IF program = "monitor" THEN {"set"}
                                ELSE {"set", "unset"})
    /\ pending = <<>>
    /\ entry_number = 0
    /\ last_processed_row = 0
    /\ structured_data = <<>>
    /\ all_rows = <<>>
    /\ row_index = 0
    /\ submission_data = None
    /\ docs_result = None
    /\ discord_result = None
    /\ result = None
    /\ calls = <<>>
    /\ returned = {}
    /\ docs_for = {}
    /\ notes_for = {}
    /\ cycle_outcome = "none"
    /\ cycle_start_last = 0
    /\ missed = {}
    /\ arg = None
    /\ applied = [fn |-> "none"]
    /\ ret = None
    /\ round_trips = 0
    /\ export = None

\* ------------------------------------------------------------- environment

\* The programs read the sheet only when they fetch it, so its edits are
\* taken at the top of the loop (monitor) or between requests (service).

\* A form response is appended to the sheet.
AppendRow ==
    /\ pc \in {"poll", "idle"}
    /\ next_id <= MaxRows
    /\ \E r \in RowChoices :
           sheet' = Append(sheet, [id |-> next_id, data |-> r])
    /\ next_id' = next_id + 1
    /\ UNCHANGED <<program, callVars, export, deleted, discord_webhook_url, pc,
                   last_processed_row, structured_data, all_rows, row_index,
                   rowVars, histVars, cycleVars>>

\* Somebody deletes a row of the sheet; the rows below move up.  (The
\* service keeps no offset and reads the sheet afresh for each request, so
\* for it a sheet edited by deletions is one more sheet that appends give.)
DeleteRow ==
    /\ program = "monitor" /\ pc = "poll"
    /\ \E i \in 1 .. Len(sheet) :
           sheet' = SubSeq(sheet, 1, i - 1) \o SubSeq(sheet, i + 1, Len(sheet))
    /\ deleted' = TRUE
    /\ UNCHANGED <<program, callVars, export, next_id, discord_webhook_url, pc,
                   last_processed_row, structured_data, all_rows, row_index,
                   rowVars, histVars, cycleVars>>

\* ------------------------------------------------------ monitor_spreadsheet

\* Rows that were new in abandoned cycles and not yet covered by a completed one.
MissedBase == IF cycle_outcome = "completed" THEN {} ELSE missed

\* Lines 96-100: the rows are fetched.
Fetch ==
    /\ program = "monitor" /\ pc = "poll"
    /\ all_rows' = sheet
    /\ pc' = "check"
    /\ cycle_outcome' = "running"
    /\ cycle_start_last' = last_processed_row
    /\ missed' = MissedBase
    /\ UNCHANGED <<program, callVars, export, envVars, last_processed_row, structured_data,
                   row_index, rowVars, histVars>>

\* A variant of FetchError in which the error of the fetch is not caught and
\* ends the loop.
FetchError_fatal ==
    /\ program = "monitor" /\ pc = "poll"
    /\ pc' = "exited"
    /\ cycle_outcome' = "failed"
    /\ cycle_start_last' = last_processed_row
    /\ missed' = MissedBase \cup NewIds(sheet, last_processed_row)
    /\ UNCHANGED <<program, callVars, export, envVars, last_processed_row,
                   structured_data, all_rows, row_index, rowVars, histVars>>

\* Lines 96-100 raise; line 116 catches, the cycle is abandoned.
FetchError ==
    /\ program = "monitor" /\ pc = "poll"
    /\ pc' = "sleep"
    /\ cycle_outcome' = "failed"
    /\ cycle_start_last' = last_processed_row
    /\ missed' = MissedBase \cup NewIds(sheet, last_processed_row)
    /\ UNCHANGED <<program, callVars, export, envVars, last_processed_row, structured_data,
                   all_rows, row_index, rowVars, histVars>>

\* Line 102: only the header row (or nothing): return.
HeaderOnly ==
    /\ program = "monitor" /\ pc = "check"
    /\ IsHeaderOnly(all_rows)
    /\ pc' = "sleep"
    /\ cycle_outcome' = "completed"
    /\ UNCHANGED <<program, callVars, export, envVars, last_processed_row, structured_data,
                   all_rows, row_index, rowVars, histVars, cycle_start_last,
                   missed>>

\* Line 108 is false: no row after the offset, return.
NoNewRows ==
    /\ program = "monitor" /\ pc = "check"
    /\ ~IsHeaderOnly(all_rows)
    /\ ~HasNewRows(Len(all_rows), last_processed_row)
    /\ pc' = "sleep"
    /\ cycle_outcome' = "completed"
    /\ UNCHANGED <<program, callVars, export, envVars, last_processed_row, structured_data,
                   all_rows, row_index, rowVars, histVars, cycle_start_last,
                   missed>>

\* Lines 108-110: the loop over the new rows begins (with an empty range the
\* loop body is skipped and line 114 is next).
StartRows ==
    /\ program = "monitor" /\ pc = "check"
    /\ ~IsHeaderOnly(all_rows)
    /\ HasNewRows(Len(all_rows), last_processed_row)
    /\ LET range == NewRowRange(last_processed_row, Len(all_rows))
       IN  IF range = {}
           THEN pc' = "advance" /\ UNCHANGED row_index
           ELSE pc' = "extract"
                /\ row_index' = CHOOSE i \in range : \A j \in range : i <= j
    /\ UNCHANGED <<program, callVars, export, envVars, last_processed_row, structured_data,
                   all_rows, rowVars, histVars, cycleVars>>

\* The for statement after the body has run for row_index.
NextRow ==
    IF row_index < Len(all_rows)
    THEN pc' = "extract" /\ row_index' = row_index + 1
    ELSE pc' = "advance" /\ UNCHANGED row_index

\* Lines 111-112, 130-133: process_submission is called for the row and its
\* extraction fails: the call returns at once.
ExtractFail ==
    /\ program = "monitor" /\ pc = "extract"
    /\ extract_submission_data(all_rows[row_index].data) = None
    /\ calls' = Append(calls, [row_number |-> row_index,
                              id |-> all_rows[row_index].id,
                              fields |-> Len(all_rows[row_index].data)])
    /\ returned' = returned \cup {row_index}
    /\ submission_data' = None
    /\ docs_result' = None
    /\ discord_result' = None
    /\ result' = None
    /\ UNCHANGED svcVars
    /\ NextRow
    /\ UNCHANGED <<program, callVars, export, envVars, last_processed_row, structured_data,
                   all_rows, docs_for, notes_for, cycleVars>>

\* A variant of ExtractOk that moves the offset to the row as its call starts.
ExtractOk_advancing ==
    /\ program = "monitor" /\ pc = "extract"
    /\ extract_submission_data(all_rows[row_index].data) # None
    /\ calls' = Append(calls, [row_number |-> row_index,
                              id |-> all_rows[row_index].id,
                              fields |-> Len(all_rows[row_index].data)])
    /\ submission_data' = extract_submission_data(all_rows[row_index].data)
    /\ docs_result' = None
    /\ discord_result' = None
    /\ result' = None
    /\ UNCHANGED svcVars
    /\ pc' = "docs"
    /\ last_processed_row' = row_index
    /\ UNCHANGED <<program, callVars, export, envVars, structured_data,
                   all_rows, row_index, returned, docs_for, notes_for,
                   cycleVars>>

\* Lines 111-112, 130: process_submission is called for the row and extracts it.
ExtractOk ==
    /\ program = "monitor" /\ pc = "extract"
    /\ extract_submission_data(all_rows[row_index].data) # None
    /\ calls' = Append(calls, [row_number |-> row_index,
                              id |-> all_rows[row_index].id,
                              fields |-> Len(all_rows[row_index].data)])
    /\ submission_data' = extract_submission_data(all_rows[row_index].data)
    /\ docs_result' = None
    /\ discord_result' = None
    /\ result' = None
    /\ UNCHANGED svcVars
    /\ pc' = "docs"
    /\ UNCHANGED <<program, callVars, export, envVars, last_processed_row, structured_data,
                   all_rows, row_index, returned, docs_for, notes_for,
                   cycleVars>>

\* Line 145: an exception of the body is caught, the call returns.
RowError ==
    /\ returned' = returned \cup {row_index}
    /\ NextRow

\* Line 136: add_to_docs(row_number - 1, submission_data).
AddToDocs ==
    /\ program = "monitor" /\ pc = "docs"
    /\ \E provider \in ProviderOutcomes, fault \in BOOLEAN :
         LET r == add_to_docs(row_index - 1, submission_data.val, provider, fault)
         IN  /\ docs_result' = Some(r)
             /\ IF r.raised
                THEN RowError
                ELSE pc' = "discord" /\ UNCHANGED <<row_index, returned>>
    /\ docs_for' = docs_for \cup {row_index}
    /\ UNCHANGED <<program, callVars, export, envVars, last_processed_row, structured_data,
                   all_rows, submission_data, discord_result, result, svcVars,
                   calls, notes_for, cycleVars>>

\* Line 139: send_discord_notification(row_number - 1, submission_data).
SendDiscord ==
    /\ program = "monitor" /\ pc = "discord"
    /\ \E provider \in ProviderOutcomes, http \in HttpOutcomes :
         LET r == send_discord_notification(row_index - 1, submission_data.val,
                                            provider, http)
         IN  /\ discord_result' = Some(r)
             /\ IF r.raised
                THEN RowError
                ELSE pc' = "prepare" /\ UNCHANGED <<row_index, returned>>
    /\ notes_for' = notes_for \cup {row_index}
    /\ UNCHANGED <<program, callVars, export, envVars, last_processed_row, structured_data,
                   all_rows, submission_data, docs_result, result, svcVars,
                   calls, docs_for, cycleVars>>

\* A variant of PrepareAndAppend that puts the new entry at the head of the
\* list.
PrepareAndAppend_front ==
    /\ program = "monitor" /\ pc = "prepare"
    /\ \E provider_title \in ProviderOutcomes, provider_quote \in ProviderOutcomes :
         structured_data' =
             <<prepare_structured_data(submission_data.val, row_index,
                                       provider_title, provider_quote)>>
             \o structured_data
    /\ returned' = returned \cup {row_index}
    /\ NextRow
    /\ UNCHANGED <<program, callVars, export, envVars, last_processed_row, all_rows,
                   rowVars, calls, docs_for, notes_for, cycleVars>>

\* Lines 142-143: the structured entry is built and appended; the call returns.
PrepareAndAppend ==
    /\ program = "monitor" /\ pc = "prepare"
    /\ \E provider_title \in ProviderOutcomes, provider_quote \in ProviderOutcomes :
         structured_data' =
             Append(structured_data,
                    prepare_structured_data(submission_data.val, row_index,
                                            provider_title, provider_quote))
    /\ returned' = returned \cup {row_index}
    /\ NextRow
    /\ UNCHANGED <<program, callVars, export, envVars, last_processed_row, all_rows, rowVars,
                   calls, docs_for, notes_for, cycleVars>>

\* Line 114: the offset is set to the row count of the cycle; return.
Advance ==
    /\ program = "monitor" /\ pc = "advance"
    /\ last_processed_row' = NewOffset(Len(all_rows))
    /\ pc' = "sleep"
    /\ cycle_outcome' = "completed"
    /\ submission_data' = None
    /\ docs_result' = None
    /\ discord_result' = None
    /\ UNCHANGED <<program, callVars, export, envVars, structured_data, all_rows, row_index,
                   result, svcVars, histVars, cycle_start_last, missed>>

\* ------------------------------------------------------ run_monitoring_loop

\* Lines 394, 400: time.sleep(interval_seconds) ends, the loop iterates.
Sleep ==
    /\ program = "monitor" /\ pc = "sleep"
    /\ pc' = "poll"
    /\ all_rows' = <<>>
    /\ UNCHANGED <<program, callVars, export, envVars, last_processed_row, structured_data,
                   row_index, rowVars, histVars, cycleVars>>

\* Lines 395-397: KeyboardInterrupt is raised in the main thread, wherever
\* it is; no except Exception clause catches it, the loop breaks.
KeyboardInterrupt ==
    /\ program = "monitor" /\ pc # "stopped"
    /\ pc' = "stopped"
    /\ cycle_outcome' = IF pc \in InCycle THEN "interrupted" ELSE cycle_outcome
    /\ UNCHANGED <<program, callVars, export, envVars, last_processed_row, structured_data,
                   all_rows, row_index, rowVars, histVars, cycle_start_last,
                   missed>>

\* Lines 373-378: json.dump(self.structured_data, f); an error of the file
\* system is caught and printed, and no file is written.
FileOutcomes == {"ok", "raise"}

save_structured_data(data, io) ==
    IF io = "ok" THEN Some([file |-> data]) ELSE None

\* save_structured_data is a public method that run_monitoring_loop never
\* calls; a caller can reach it once the loop has returned.
SaveStructuredData ==
    /\ program = "monitor" /\ pc = "stopped"
    /\ \E io \in FileOutcomes :
         LET written == save_structured_data(structured_data, io)
         IN  export' = IF written # None THEN written ELSE export
    /\ UNCHANGED <<program, callVars, envVars, pc, last_processed_row,
                   structured_data, all_rows, row_index, rowVars, histVars,
                   cycleVars>>

MonitorNext ==
    \/ Fetch \/ FetchError \/ HeaderOnly \/ NoNewRows \/ StartRows
    \/ ExtractFail \/ ExtractOk \/ AddToDocs \/ SendDiscord
    \/ PrepareAndAppend \/ Advance \/ Sleep \/ KeyboardInterrupt
    \/ SaveStructuredData

\* ------------------------------------------- EvidenceCollectionService (app.py)
\* Requests are handled one at a time.

DefaultLimit == 10

\* seq[start:] of Python, start possibly negative (0-based start).
PySliceFrom(seq, start) ==
    LET from == IF start < 0 THEN Max(Len(seq) + start, 0)
                ELSE IF start > Len(seq) THEN Len(seq) ELSE start
    IN  SubSeq(seq, from + 1, Len(seq))

\* The loop of get_latest_submissions: the rows that extract, each with the
\* key row_number added, numbered from start.
RECURSIVE NumberedSubmissions(_, _)
NumberedSubmissions(rows, start) ==
    IF rows = <<>> THEN <<>>
    ELSE LET submission == extract_submission_data(Head(rows))
             rest == NumberedSubmissions(Tail(rows), start + 1)
         IN  IF submission # None
             THEN <<[row_number |-> start] @@ submission.val>> \o rest
             ELSE rest

\* EvidenceCollectionService.get_latest_submissions on the fetched rows.
get_latest_submissions(rows, limit) ==
    IF Len(rows) <= 1 THEN <<>>
    ELSE LET latest_rows == IF Len(rows) > limit
                            THEN PySliceFrom(rows, 0 - limit)
                            ELSE PySliceFrom(rows, 1)
         IN  NumberedSubmissions(latest_rows,
                                 Len(rows) - Len(latest_rows) + 1)

\* A variant of the service add_to_docs without its try/except.
svc_add_to_docs_uncaught(n, data, provider, fault) ==
    [raised  |-> fault,
     value   |-> ~fault,
     content |-> IF fault THEN None
                 ELSE Some(FormatDocument(n, data,
                                          translate_text(data.quote, provider)))]

\* EvidenceCollectionService.add_to_docs: True, or False when the body raised.
svc_add_to_docs(n, data, provider, fault) ==
    [raised  |-> FALSE,
     value   |-> ~fault,
     content |-> IF fault THEN None
                 ELSE Some(FormatDocument(n, data,
                                          translate_text(data.quote, provider)))]

\* EvidenceCollectionService.send_discord_notification: False without a
\* webhook URL, and False when a key of data is missing (the KeyError is
\* caught); else the payload is posted and True means status 204.
svc_send_discord_notification(n, data, url, provider, http) ==
    IF url = "unset" \/ ~WellFormed(data)
    THEN [raised |-> FALSE, value |-> FALSE, payload |-> None]
    ELSE [raised  |-> FALSE,
          value   |-> (http = "204"),
          payload |-> Some(FormatNotification(n, data,
                               translate_text(data.quote, provider)))]

\* The dictionary process_submission returns from its try body.
SuccessResult(n, docs_added, discord_sent, structured_entry) ==
    [success         |-> TRUE,
     entry_number    |-> n,
     docs_added      |-> docs_added,
     discord_sent    |-> discord_sent,
     structured_data |-> structured_entry]

\* The dictionary process_submission returns from its except clause.
FailureResult == [success |-> FALSE, error |-> "error"]

\* The row_data form_submit_webhook builds from namedValues: eleven fields,
\* a missing name giving the empty string.
WebhookRow(named_values) ==
    [k \in 1 .. 11 |-> IF k <= Len(named_values) THEN named_values[k] ELSE Empty]

\* POST /api/webhook/form-submit with namedValues: the row is extracted, to
\* be processed as entry 1.
FormSubmitWebhook ==
    /\ program = "service" /\ pc = "idle"
    /\ Len(structured_data) < MaxRecords
    /\ \E named_values \in RowChoices :
         LET submission == extract_submission_data(WebhookRow(named_values))
         IN  /\ submission # None
             /\ pending' = << [data |-> submission.val, entry_number |-> 1] >>
    /\ pc' = "handle"
    /\ UNCHANGED <<program, callVars, export, envVars, last_processed_row, structured_data,
                   all_rows, row_index, submission_data, docs_result,
                   discord_result, result, entry_number, histVars, cycleVars>>

\* POST /api/submissions/process: process_submission is called with the
\* submission_data and the entry_number of the request body, whatever they
\* are (entry_number is 1 when the body has none).
ProcessRequest ==
    /\ program = "service" /\ pc = "idle"
    /\ Len(structured_data) < MaxRecords
    /\ \E data \in {extract_submission_data(RowA).val, IncompleteSubmission},
          n \in 1 .. 2 :
         pending' = << [data |-> data, entry_number |-> n] >>
    /\ pc' = "handle"
    /\ UNCHANGED <<program, callVars, export, envVars, last_processed_row,
                   structured_data, all_rows, row_index, submission_data,
                   docs_result, discord_result, result, entry_number,
                   histVars, cycleVars>>

\* The calls batch_process_submissions makes for the submissions it got.
BatchCalls(submissions) ==
    [k \in 1 .. Len(submissions) |->
        [data |-> submissions[k], entry_number |-> submissions[k].row_number]]

\* POST /api/submissions/batch-process: the latest submissions are fetched,
\* each to be processed under its row_number.
BatchStart ==
    /\ program = "service" /\ pc = "idle"
    /\ Len(structured_data) < MaxRecords
    /\ pending' = BatchCalls(get_latest_submissions(
                      [i \in 1 .. Len(sheet) |-> sheet[i].data], DefaultLimit))
    /\ pc' = "handle"
    /\ UNCHANGED <<program, callVars, export, envVars, last_processed_row, structured_data,
                   all_rows, row_index, submission_data, docs_result,
                   discord_result, result, entry_number, histVars, cycleVars>>

\* batch-process: the fetch of the rows raises, get_latest_submissions
\* returns the empty list.
BatchFetchError ==
    /\ program = "service" /\ pc = "idle"
    /\ Len(structured_data) < MaxRecords
    /\ pending' = <<>>
    /\ pc' = "handle"
    /\ UNCHANGED <<program, callVars, export, envVars, last_processed_row, structured_data,
                   all_rows, row_index, submission_data, docs_result,
                   discord_result, result, entry_number, histVars, cycleVars>>

\* Line 212: an exception of the body of process_submission is caught.
SvcError ==
    /\ result' = FailureResult
    /\ pc' = "handle"

\* process_submission is called for the next submission; line 195:
\* add_to_docs(entry_number, submission_data).  With a key of the data
\* missing the body of add_to_docs faults.
SvcAddToDocs ==
    /\ program = "service" /\ pc = "handle"
    /\ pending # <<>>
    /\ pending' = Tail(pending)
    /\ submission_data' = Some(Head(pending).data)
    /\ entry_number' = Head(pending).entry_number
    /\ discord_result' = None
    /\ \E provider \in ProviderOutcomes,
          fault \in (IF WellFormed(Head(pending).data) THEN BOOLEAN ELSE {TRUE}) :
         LET r == svc_add_to_docs(Head(pending).entry_number,
                                  Head(pending).data, provider, fault)
         IN  /\ docs_result' = Some(r)
             /\ IF r.raised
                THEN SvcError
                ELSE pc' = "svc_discord" /\ result' = None
    /\ UNCHANGED <<program, callVars, export, envVars, last_processed_row, structured_data,
                   all_rows, row_index, histVars, cycleVars>>

\* Line 198: send_discord_notification(entry_number, submission_data).
SvcSendDiscord ==
    /\ program = "service" /\ pc = "svc_discord"
    /\ \E provider \in ProviderOutcomes, http \in HttpOutcomes :
         LET r == svc_send_discord_notification(entry_number,
                      submission_data.val, discord_webhook_url, provider, http)
         IN  /\ discord_result' = Some(r)
             /\ IF r.raised
                THEN SvcError
                ELSE pc' = "svc_prepare" /\ UNCHANGED result
    /\ UNCHANGED <<program, callVars, export, envVars, last_processed_row, structured_data,
                   all_rows, row_index, submission_data, docs_result, svcVars,
                   histVars, cycleVars>>

\* Lines 201-210: the structured entry is built and appended, the result
\* dictionary is returned.  With a key of the data missing
\* prepare_structured_data raises KeyError, which line 212 catches.
SvcPrepareAndAppend ==
    /\ program = "service" /\ pc = "svc_prepare"
    /\ IF WellFormed(submission_data.val)
       THEN /\ \E provider_title \in ProviderOutcomes,
                  provider_quote \in ProviderOutcomes :
                 LET structured_entry ==
                         prepare_structured_data(submission_data.val, entry_number,
                                                 provider_title, provider_quote)
                 IN  /\ structured_data' = Append(structured_data, structured_entry)
                     /\ result' = SuccessResult(entry_number,
                                                docs_result.val.value,
                                                discord_result.val.value,
                                                structured_entry)
            /\ pc' = "handle"
       ELSE SvcError /\ UNCHANGED structured_data
    /\ UNCHANGED <<program, callVars, export, envVars, last_processed_row, all_rows,
                   row_index, submission_data, docs_result, discord_result,
                   svcVars, histVars, cycleVars>>

\* app.py lines 497-501: the body of the response of /api/data/structured.
get_structured_data(data) ==
    [structured_data |-> data, count |-> Len(data)]

GetStructuredData_drain ==
    /\ program = "service" /\ pc = "idle"
    /\ pc' = "export"
    /\ export' = Some(get_structured_data(structured_data))
    /\ structured_data' = <<>>
    /\ UNCHANGED <<program, callVars, envVars, last_processed_row,
                   all_rows, row_index, rowVars, histVars, cycleVars>>

\* GET /api/data/structured (app.py lines 490-505): the handler builds the
\* response from self.structured_data.
GetStructuredData ==
    /\ program = "service" /\ pc = "idle"
    /\ pc' = "export"
    /\ export' = Some(get_structured_data(structured_data))
    /\ UNCHANGED <<program, callVars, envVars, last_processed_row,
                   structured_data, all_rows, row_index, rowVars, histVars,
                   cycleVars>>

\* The handler has made its calls and sends the response.
Respond ==
    /\ program = "service"
    /\ \/ pc = "handle" /\ pending = <<>>
       \/ pc = "export"
    /\ pc' = "idle"
    /\ submission_data' = None
    /\ docs_result' = None
    /\ discord_result' = None
    /\ result' = None
    /\ entry_number' = 0
    /\ export' = None
    /\ UNCHANGED <<program, callVars, envVars, last_processed_row,
                   structured_data, all_rows, row_index, pending, histVars,
                   cycleVars>>

ServiceNext ==
    \/ FormSubmitWebhook \/ ProcessRequest \/ BatchStart \/ BatchFetchError
    \/ SvcAddToDocs
    \/ SvcSendDiscord \/ SvcPrepareAndAppend \/ Respond
    \/ GetStructuredData

Next == AppendRow \/ DeleteRow \/ MonitorNext \/ ServiceNext

Spec == Init /\ [][Next]_vars

\* ------------------------------------------- the polling loop, with progress

\* process_submission.py started by main().
LoopInit == Init /\ program = "monitor"

\* A step of the program itself: every statement of run_monitoring_loop and
\* of what it calls.  The process is sequential and each statement ends (the
\* calls to the services return or raise, time.sleep returns), so the
\* program keeps taking its next step until a KeyboardInterrupt arrives.
LoopStep ==
    \/ Fetch \/ FetchError \/ HeaderOnly \/ NoNewRows \/ StartRows
    \/ ExtractFail \/ ExtractOk \/ AddToDocs \/ SendDiscord
    \/ PrepareAndAppend \/ Advance \/ Sleep

\* The loop against a sheet that form responses extend (deletions, which
\* change what a cycle reads and not how the loop goes on, are in Spec).
LoopNext == AppendRow \/ LoopStep \/ KeyboardInterrupt

LoopSpec == LoopInit /\ [][LoopNext]_vars /\ WF_vars(LoopStep)

\* ------------------------------------------------- the functions, call by call

\* Symbols of the texts: two letters and the two symbols of the separator.
Alphabet == {"a", "b", ",", " "}

\* The texts of n symbols.
RECURSIVE TextsOfLen(_)
TextsOfLen(n) ==
    IF n = 0 THEN {Empty}
    ELSE {Append(t, c) : t \in TextsOfLen(n - 1), c \in Alphabet}

\* Every text of at most MaxLen symbols.
Texts == UNION {TextsOfLen(n) : n \in 0 .. MaxLen}

TagFieldChoices == {Empty, <<"a">>, <<"a", ",", " ", "b">>, <<",", " ", "b">>}

QuoteChoices == {Empty, <<" ">>, <<"q">>}

AttachmentChoices == {Empty, <<"file">>}

RemarkChoices == {Empty, <<"r">>}

\* A row of n fields with the given tag, quote, attachment and remark fields
\* (where n reaches them); every other field k holds the text "f" k.
TestRow(n, aff, neg, quote, attachment, remark) ==
    [k \in 1 .. n |->
        CASE k = 4  -> aff
          [] k = 5  -> neg
          [] k = 9  -> quote
          [] k = 10 -> attachment
          [] k = 11 -> remark
          [] OTHER  -> <<"f", ToString(k)>>]

\* Rows of two fields fewer than extraction needs up to MaxFields fields.
TestRows ==
    {TestRow(n, aff, neg, quote, attachment, remark) :
        n \in MinFields - 2 .. MaxFields,
        aff \in TagFieldChoices, neg \in TagFieldChoices,
        quote \in QuoteChoices, attachment \in AttachmentChoices,
        remark \in RemarkChoices}

\* The entry number the formatting functions are called with.
TestEntryNumber == 7

\* Sheets for get_latest_submissions: nothing at all, or the header row and up
\* to MaxSheetRows rows of 11, 12 or 9 fields.
MaxSheetRows == 2

RowSeqs(n) == [1 .. n -> RowChoices]

TestSheets ==
    {<<>>} \cup {<<HeaderRow>> \o rows :
                   rows \in UNION {RowSeqs(n) : n \in 0 .. MaxSheetRows}}

\* bot.py lines 416-417: if limit > 10: limit = 10.
BotMaxLimit == 10

\* Values of limit: request.args.get('limit', 10, type=int) and the argument
\* of the command take any integer.
Limits == ((0 - 1) .. (MaxSheetRows + 1)) \cup {BotMaxLimit + 1}

FetchOutcomes == {"ok", "raise"}

\* Records the service holds when the calls of its process_submission stop.
MaxPosted == 2

\* Values of entry_number in the body of /api/submissions/process.
EntryNumbers == 1 .. 2

\* EvidenceCollectionService.process_submission (app.py lines 182-217) on a
\* submission that has every key: the three steps, the result, and the entry
\* it appends to structured_data.
svc_process_submission(data, n, url, p_docs, fault, p_note, http, p_title, p_quote) ==
    LET docs == svc_add_to_docs(n, data, p_docs, fault)
        note == svc_send_discord_notification(n, data, url, p_note, http)
        structured_entry == prepare_structured_data(data, n, p_title, p_quote)
    IN  [result |-> SuccessResult(n, docs.value, note.value, structured_entry),
         entry  |-> structured_entry]

\* The provider round trips of one process_submission: the quote three
\* times, the title once.
SvcRoundTrips(data) ==
    3 * ProviderRoundTrips(data.quote, "ok")
        + ProviderRoundTrips(data.title, "ok")

\* What a call of the service's process_submission leaves untouched.
serviceCallVars == <<program, envVars, pc, last_processed_row, all_rows,
                     row_index, rowVars, histVars, cycleVars, export>>

programVars == <<program, envVars, pc, last_processed_row, structured_data,
                 all_rows, row_index, rowVars, histVars, cycleVars, export>>

\* No program runs; an argument, a text or a row, is drawn for the calls.
FunctionInit ==
    /\ program = "functions"
    /\ pc = "call"
    /\ sheet = << [id |-> 0, data |-> HeaderRow] >>
    /\ next_id = 1
    /\ deleted = FALSE
    /\ discord_webhook_url = "set"
    /\ pending = <<>>
    /\ entry_number = 0
    /\ last_processed_row = 0
    /\ structured_data = <<>>
    /\ all_rows = <<>>
    /\ row_index = 0
    /\ submission_data = None
    /\ docs_result = None
    /\ discord_result = None
    /\ result = None
    /\ calls = <<>>
    /\ returned = {}
    /\ docs_for = {}
    /\ notes_for = {}
    /\ cycle_outcome = "none"
    /\ cycle_start_last = 0
    /\ missed = {}
    /\ arg \in {[kind |-> "text", val |-> t] : t \in Texts}
               \cup {[kind |-> "row", val |-> r] : r \in TestRows}
               \cup {[kind |-> "sheet", val |-> rows] : rows \in TestSheets}
               \cup {[kind |-> "post", val |-> r] : r \in RowChoices}
    /\ applied = [fn |-> "none"]
    /\ ret = None
    /\ round_trips = 0
    /\ export = None

\* row_data[3].split(', ') if row_data[3] else [] on a tag field.
ApplyParseTags ==
    /\ arg.kind = "text"
    /\ applied' = [fn |-> "ParseTags"]
    /\ ret' = ParseTags(arg.val)
    /\ round_trips' = 0
    /\ UNCHANGED <<arg, programVars>>

\* translate_text(text) of process_submission.py and app.py.
ApplyTranslate ==
    /\ arg.kind = "text"
    /\ \E provider \in ProviderOutcomes :
         /\ applied' = [fn |-> "translate_text", provider |-> provider]
         /\ ret' = translate_text(arg.val, provider)
         /\ round_trips' = ProviderRoundTrips(arg.val, provider)
    /\ UNCHANGED <<arg, programVars>>

\* translate_text(text) of bot.py, with or without credentials.
ApplyBotTranslate ==
    /\ arg.kind = "text"
    /\ \E credentials \in BOOLEAN, provider \in ProviderOutcomes :
         /\ applied' = [fn |-> "bot_translate_text", provider |-> provider,
                        credentials |-> credentials]
         /\ ret' = bot_translate_text(arg.val, credentials, provider)
         /\ round_trips' = IF credentials
                           THEN ProviderRoundTrips(arg.val, provider) ELSE 0
    /\ UNCHANGED <<arg, programVars>>

\* extract_submission_data(row_data).
ApplyExtract ==
    /\ arg.kind = "row"
    /\ applied' = [fn |-> "extract_submission_data"]
    /\ ret' = extract_submission_data(arg.val)
    /\ round_trips' = 0
    /\ UNCHANGED <<arg, programVars>>

\* add_to_docs(entry_number, data) on the submission of the row; the body
\* does not fault.
ApplyAddToDocs ==
    /\ arg.kind = "row"
    /\ extract_submission_data(arg.val) # None
    /\ \E provider \in ProviderOutcomes :
         LET data == extract_submission_data(arg.val).val
         IN  /\ applied' = [fn |-> "add_to_docs", provider |-> provider]
             /\ ret' = add_to_docs(TestEntryNumber, data, provider, FALSE)
             /\ round_trips' = ProviderRoundTrips(data.quote, provider)
    /\ UNCHANGED <<arg, programVars>>

\* send_discord_notification(entry_number, data) of process_submission.py.
ApplySendDiscord ==
    /\ arg.kind = "row"
    /\ extract_submission_data(arg.val) # None
    /\ \E provider \in ProviderOutcomes, http \in HttpOutcomes :
         LET data == extract_submission_data(arg.val).val
         IN  /\ applied' = [fn |-> "send_discord_notification",
                            provider |-> provider, http |-> http]
             /\ ret' = send_discord_notification(TestEntryNumber, data,
                                                 provider, http)
             /\ round_trips' = ProviderRoundTrips(data.quote, provider)
    /\ UNCHANGED <<arg, programVars>>

\* send_discord_notification(entry_number, data) of app.py, the webhook URL
\* configured.
ApplySvcSendDiscord ==
    /\ arg.kind = "row"
    /\ extract_submission_data(arg.val) # None
    /\ \E provider \in ProviderOutcomes, http \in HttpOutcomes :
         LET data == extract_submission_data(arg.val).val
         IN  /\ applied' = [fn |-> "svc_send_discord_notification",
                            provider |-> provider, http |-> http]
             /\ ret' = svc_send_discord_notification(TestEntryNumber, data,
                                                     "set", provider, http)
             /\ round_trips' = ProviderRoundTrips(data.quote, provider)
    /\ UNCHANGED <<arg, programVars>>

\* process_evidence_notification(channel, entry_number, data) of bot.py.
ApplyBotNotification ==
    /\ arg.kind = "row"
    /\ extract_submission_data(arg.val) # None
    /\ \E credentials \in BOOLEAN, provider \in ProviderOutcomes :
         LET data == extract_submission_data(arg.val).val
         IN  /\ applied' = [fn |-> "process_evidence_notification",
                            provider |-> provider, credentials |-> credentials]
             /\ ret' = process_evidence_notification(TestEntryNumber, data,
                                                     credentials, provider)
             /\ round_trips' = IF credentials
                               THEN ProviderRoundTrips(data.quote, provider)
                               ELSE 0
    /\ UNCHANGED <<arg, programVars>>

\* GET /api/submissions/latest (app.py lines 416-434): the submissions of
\* get_latest_submissions(limit), [] when the fetch raises (lines 139-141).
ApplyGetLatest ==
    /\ arg.kind = "sheet"
    /\ \E limit \in Limits, fetch \in FetchOutcomes :
         /\ applied' = [fn |-> "get_latest_submissions", limit |-> limit,
                        fetch |-> fetch]
         /\ ret' = IF fetch = "ok" THEN get_latest_submissions(arg.val, limit)
                   ELSE <<>>
    /\ round_trips' = 0
    /\ UNCHANGED <<arg, programVars>>

\* EvidenceCollectionBot.get_latest_submissions (bot.py lines 167-204): as
\* the service's, and [] without credentials.
bot_get_latest_submissions(rows, limit, credentials) ==
    IF credentials THEN get_latest_submissions(rows, limit) ELSE <<>>

\* The command !latest (bot.py lines 410-431): the limit is capped at 10,
\* then the submissions of get_latest_submissions(limit) are notified.
ApplyBotLatest ==
    /\ arg.kind = "sheet"
    /\ \E n \in Limits, credentials \in BOOLEAN, fetch \in FetchOutcomes :
         LET limit == IF n > BotMaxLimit THEN BotMaxLimit ELSE n
         IN  /\ applied' = [fn |-> "get_latest_evidence", limit |-> limit,
                            fetch |-> fetch, credentials |-> credentials]
             /\ ret' = IF fetch = "ok"
                       THEN bot_get_latest_submissions(arg.val, limit,
                                                       credentials)
                       ELSE <<>>
    /\ round_trips' = 0
    /\ UNCHANGED <<arg, programVars>>

\* process_submission(data, n) is called on the service object and appends
\* its entry.
ApplySvcProcess(fn, data, n) ==
    /\ Len(structured_data) < MaxPosted
    /\ \E provider_docs \in ProviderOutcomes, fault \in BOOLEAN,
          provider_note \in ProviderOutcomes, http \in HttpOutcomes,
          provider_title \in ProviderOutcomes,
          provider_quote \in ProviderOutcomes :
         LET r == svc_process_submission(data, n, "set", provider_docs, fault,
                                         provider_note, http, provider_title,
                                         provider_quote)
         IN  /\ structured_data' = Append(structured_data, r.entry)
             /\ ret' = r.result
    /\ applied' = [fn |-> fn, entry_number |-> n]
    /\ round_trips' = SvcRoundTrips(data)
    /\ UNCHANGED <<arg, serviceCallVars>>

\* POST /api/webhook/form-submit (app.py lines 508-551) with the namedValues
\* of a form post: the row is extracted and processed as entry 1.
ApplyFormSubmitWebhook ==
    /\ arg.kind = "post"
    /\ LET submission == extract_submission_data(WebhookRow(arg.val))
       IN  /\ submission # None
           /\ ApplySvcProcess("form_submit_webhook", submission.val, 1)

\* POST /api/submissions/process (app.py lines 437-458) with the submission
\* of the form post and an entry_number.
ApplyProcessRequest ==
    /\ arg.kind = "post"
    /\ \E n \in EntryNumbers :
         ApplySvcProcess("process_submission",
                         extract_submission_data(WebhookRow(arg.val)).val, n)

FunctionNext ==
    \/ ApplyFormSubmitWebhook \/ ApplyProcessRequest
    \/ ApplyParseTags \/ ApplyTranslate \/ ApplyBotTranslate \/ ApplyExtract
    \/ ApplyAddToDocs \/ ApplySendDiscord \/ ApplySvcSendDiscord
    \/ ApplyBotNotification \/ ApplyGetLatest \/ ApplyBotLatest

FunctionSpec == FunctionInit /\ [][FunctionNext]_vars

\* ------------------------------------------------------------------ claims

\* Row numbers passed to process_submission so far.
CalledRows == {calls[k].row_number : k \in 1 .. Len(calls)}

\* Ids of the rows passed to process_submission so far.
PassedIds == {calls[k].id : k \in 1 .. Len(calls)}

\* The most recent polling cycle ran to its end and the loop is asleep.
CycleCompleted == pc = "sleep" /\ cycle_outcome = "completed"

\* Number of records of structured_data whose id is that of row number n.
RecordsOf(n) ==
    Cardinality({k \in 1 .. Len(structured_data) :
                     structured_data[k].id = EntryId(n)})

\* C1: while no row is deleted, no row number (and no row) is passed to
\* process_submission twice, and every call is for a row strictly after the
\* offset in force when it is made; so a row handled in an earlier cycle,
\* whatever failed for it, is not attempted again.
C1_NoRowProcessedTwice ==
    [][ /\ ~deleted' =>
              \A i, j \in 1 .. Len(calls') :
                  i # j => /\ calls'[i].row_number # calls'[j].row_number
                           /\ calls'[i].id # calls'[j].id
        /\ calls' # calls =>
              calls'[Len(calls')].row_number > last_processed_row ]_vars

\* C1 witness: a second cycle has processed a row after an earlier cycle
\* processed one whose document step faulted or whose notification was refused.
C1_Witness ==
    /\ ~deleted
    /\ CycleCompleted
    /\ cycle_start_last >= 2
    /\ last_processed_row > cycle_start_last
    /\ Len(calls) >= 2

\* C2 (as stated): every data row of the snapshot of a completed cycle has
\* been passed to process_submission, whatever happened to the sheet.
C2_NoDataLossAnyChange ==
    CycleCompleted => DataIds(all_rows) \subseteq PassedIds

\* C2 (amended): when the sheet only grows by appended rows (no row deleted),
\* every data row of the snapshot of a completed cycle has been passed to
\* process_submission by the end of that cycle.
C2_NoDataLossAppendOnly ==
    (CycleCompleted /\ ~deleted) => DataIds(all_rows) \subseteq PassedIds

\* C2 witness: a completed cycle over a sheet with two data rows, reached
\* in two cycles without any deletion.
C2_Witness ==
    /\ CycleCompleted /\ ~deleted
    /\ Len(all_rows) >= 3
    /\ cycle_start_last >= 2
    /\ DataIds(all_rows) \subseteq PassedIds

\* C3: last_processed_row is 0 after construction and never decreases.
C3_OffsetNeverDecreases ==
    /\ last_processed_row = 0
    /\ [][last_processed_row' >= last_processed_row]_vars

\* C3 witness: a completed cycle saw fewer rows than the offset.
C3_Witness ==
    /\ CycleCompleted
    /\ Len(all_rows) < last_processed_row
    /\ last_processed_row >= 2

\* C4 (as stated): after a completed cycle with no deletion so far, the
\* offset equals the row count the cycle saw.
C4_OffsetEqualsRowCount ==
    (CycleCompleted /\ ~deleted) => last_processed_row = Len(all_rows)

\* C4 (amended): after a completed cycle with no deletion so far, the offset
\* equals the row count the cycle saw when that count is at least 2, and is
\* 0 when the cycle saw only the header row or no row.
C4_OffsetEqualsRowCountOrZero ==
    (CycleCompleted /\ ~deleted) =>
        last_processed_row = (IF Len(all_rows) >= 2 THEN Len(all_rows) ELSE 0)

\* C4 witness: two completed cycles, the second of which saw more rows.
C4_Witness ==
    /\ CycleCompleted /\ ~deleted
    /\ cycle_start_last >= 2
    /\ Len(all_rows) > cycle_start_last
    /\ last_processed_row = Len(all_rows)

\* C5: a row of fewer than 11 fields gets no document entry, no notification
\* and no record; once its cycle has completed the offset is past it and
\* every later row of the snapshot has been passed to process_submission.
C5_PoisonRowCannotStall ==
    \A k \in 1 .. Len(calls) :
        calls[k].fields < 11 =>
            /\ calls[k].row_number \notin docs_for
            /\ calls[k].row_number \notin notes_for
            /\ RecordsOf(calls[k].row_number) = 0
            /\ calls[k].row_number \in returned
            /\ CycleCompleted =>
                  /\ last_processed_row >= calls[k].row_number
                  /\ \A r \in calls[k].row_number + 1 .. Len(all_rows) :
                         r \in CalledRows

\* C5 witness: a completed cycle in which a short row was followed by a row
\* that was extracted and recorded.
C5_Witness ==
    /\ CycleCompleted
    /\ \E k \in 1 .. Len(calls) - 1 :
           /\ calls[k].fields < 11
           /\ calls[k].row_number > cycle_start_last
           /\ calls[k + 1].fields >= 11
           /\ RecordsOf(calls[k + 1].row_number) = 1
           /\ last_processed_row >= calls[k + 1].row_number

\* C6: a cycle that fetched at most one row, or no more rows than the offset,
\* returns without processing a row and leaves the offset and the
\* accumulator as they were.
C6_IdleCycleChangesNothing ==
    [][ (pc = "check" /\ (Len(all_rows) <= 1
                          \/ Len(all_rows) <= last_processed_row)) =>
            /\ pc' \in {"sleep", "stopped"}
            /\ UNCHANGED <<last_processed_row, structured_data, calls>> ]_vars

\* C6 witness: a completed cycle that saw no more rows than an offset set
\* by an earlier cycle.
C6_Witness ==
    /\ CycleCompleted
    /\ Len(all_rows) >= 2
    /\ Len(all_rows) <= cycle_start_last
    /\ last_processed_row = cycle_start_last

\* C7: every row whose process_submission call has returned has exactly one
\* record if it has at least 11 fields and none if it has fewer, whatever
\* the translations and the two deliveries did.
C7_OneRecordPerExtractedRow ==
    program = "monitor" =>
        \A k \in 1 .. Len(calls) :
            calls[k].row_number \in returned =>
                RecordsOf(calls[k].row_number) =
                    (IF calls[k].fields >= 11 THEN 1 ELSE 0)

\* C7 witness: a returned call whose document step faulted and whose
\* notification was not accepted, with its record in the accumulator.
C7_Witness ==
    /\ program = "monitor"
    /\ Len(calls) >= 1
    /\ calls[Len(calls)].row_number \in returned
    /\ docs_result # None /\ docs_result.val.content = None
    /\ discord_result # None /\ ~discord_result.val.sent
    /\ RecordsOf(calls[Len(calls)].row_number) = 1

\* A process_submission call for a row that extracted has returned (the
\* submission_data of a request that is no extracted row is left aside).
RowReturned ==
    \/ /\ program = "monitor"
       /\ Len(calls) >= 1
       /\ calls[Len(calls)].row_number \in returned
       /\ submission_data # None
    \/ /\ program = "service"
       /\ pc = "handle"
       /\ submission_data # None
       /\ WellFormed(submission_data.val)

\* add_to_docs and send_discord_notification have both been called for the row.
BothSinksAttempted == docs_result # None /\ discord_result # None

\* Whether the document step of the row succeeded.
DocsSucceeded ==
    IF program = "monitor" THEN docs_result.val.content # None
    ELSE docs_result.val.value

\* Whether the notification of the row was accepted.
DiscordSucceeded ==
    IF program = "monitor" THEN discord_result.val.sent
    ELSE discord_result.val.value

C9_AbandonedCycleKeepsOffset ==
    /\ cycle_outcome \in {"failed", "interrupted"} =>
           last_processed_row = cycle_start_last
    /\ CycleCompleted =>
           (missed \cap DataIds(all_rows)) \subseteq PassedIds

\* C9 (amended): an abandoned cycle leaves the offset as it was when the
\* cycle began; if no row is deleted, the rows that were new in abandoned
\* cycles have been processed once a later cycle completes.
C9_AbandonedCycleKeepsOffsetNoDelete ==
    /\ cycle_outcome \in {"failed", "interrupted"} =>
           last_processed_row = cycle_start_last
    /\ (CycleCompleted /\ ~deleted) => missed \subseteq PassedIds

\* C9 witness: a cycle completed after a failed fetch and processed the row
\* that was new when the fetch failed.
C9_Witness ==
    /\ CycleCompleted /\ ~deleted
    /\ missed # {}
    /\ missed \subseteq PassedIds
    /\ last_processed_row > cycle_start_last

\* C10: a stop request never interrupts a row in flight: once the loop has
\* stopped, every row whose process_submission call has started has been
\* fully attempted (its call has returned).
C10_StopOnlyBetweenCycles ==
    pc = "stopped" =>
        \A k \in 1 .. Len(calls) : calls[k].row_number \in returned

\* C11: run_monitoring_loop never ends because of an error.  The loop leaves
\* its positions only by a KeyboardInterrupt; and unless it is stopped, every
\* cycle that begins reaches the sleep, whether it completed or failed, and
\* every sleep is followed by the next cycle.
C11_LoopRunsUntilStopped ==
    /\ [](pc \in {"poll", "sleep", "stopped"} \cup InCycle)
    /\ [][pc' = "stopped" /\ pc # "stopped" => KeyboardInterrupt]_vars
    /\ (pc = "poll") ~> (pc = "sleep" \/ pc = "stopped")
    /\ (pc = "sleep") ~> (pc = "poll" \/ pc = "stopped")

\* A failed cycle has been followed, after the sleep, by a cycle that
\* processed a row.
C11_Witness ==
    /\ program = "monitor"
    /\ missed # {}
    /\ cycle_outcome = "completed"
    /\ structured_data # <<>>
    /\ pc = "poll"

\* process_submission has just built and appended the record of a row.
RecordJustBuilt ==
    /\ structured_data # <<>>
    /\ docs_result # None
    /\ discord_result # None
    /\ \/ program = "monitor" /\ pc \in {"extract", "advance"}
       \/ program = "service" /\ pc = "handle" /\ result # None /\ result.success

\* The document entry of the row just processed, if one was formatted.
BuiltDocument == docs_result.val.content

\* The notification text of the row just processed, if one was built.
BuiltNotification ==
    IF program = "monitor" THEN Some(discord_result.val.payload)
    ELSE discord_result.val.payload

\* C12: the ordinal n of the title line "n. title (submitter)" of the document
\* entry and of the notification of a processed row is the n of the id
\* "entry_n" of its record.
C12_OneSequenceNumber ==
    RecordJustBuilt =>
        LET record == structured_data[Len(structured_data)]
        IN  /\ BuiltDocument # None
                => record.id = <<"entry_", BuiltDocument.val.title[1]>>
            /\ BuiltNotification # None
                => record.id = <<"entry_", BuiltNotification.val[1]>>

\* s is an initial segment of t.
IsPrefix(s, t) == Len(s) <= Len(t) /\ SubSeq(t, 1, Len(s)) = s

\* C13: structured_data is append-only: over every step of the polling loop
\* and of the web service its value before the step is a prefix of its value
\* after it.
C13_AppendOnly == [][IsPrefix(structured_data, structured_data')]_vars

\* A record has been appended to a list that already held one.
C13_Witness ==
    /\ Len(structured_data) = 2
    /\ structured_data[1].id # structured_data[2].id

\* C14: extract_submission_data returns a submission if and only if the row
\* has at least 11 fields; its eleven attributes are then fields 0 to 10 of
\* the row in order (1 to 11 here), the two tag fields split, and nothing of
\* a field beyond them.
C14_ExtractIffElevenFields ==
    applied.fn = "extract_submission_data" =>
        LET row == arg.val
        IN  /\ (ret # None) <=> (Len(row) >= 11)
            /\ ret # None =>
                  /\ DOMAIN ret.val = SubmissionKeys
                  /\ ret.val.timestamp = row[1]
                  /\ ret.val.submitter = row[2]
                  /\ ret.val.title = row[3]
                  /\ ret.val.aff_tags = ParseTags(row[4])
                  /\ ret.val.neg_tags = ParseTags(row[5])
                  /\ ret.val.source_url = row[6]
                  /\ ret.val.update_date = row[7]
                  /\ ret.val.eng_source = row[8]
                  /\ ret.val.quote = row[9]
                  /\ ret.val.attachment = row[10]
                  /\ ret.val.remark = row[11]

\* A row of twelve fields has been extracted.
C14_Witness ==
    /\ applied.fn = "extract_submission_data"
    /\ Len(arg.val) = 12
    /\ ret # None
    /\ ret.val.aff_tags = << <<"a">>, <<"b">> >>
    /\ ret.val.remark = <<"r">>

\* ", ".join(tags)
RECURSIVE Join(_)
Join(tags) ==
    IF tags = <<>> THEN Empty
    ELSE IF Len(tags) = 1 THEN tags[1]
    ELSE tags[1] \o Sep \o Join(Tail(tags))

\* C15: a tag field is split on ", ": the empty field gives no tag, "a" gives
\* the one tag "a", "a, b" gives "a" and "b"; and the tags of a non-empty
\* field, joined with ", ", are the field.
C15_TagSplitting ==
    applied.fn = "ParseTags" =>
        /\ arg.val = Empty => ret = <<>>
        /\ arg.val = <<"a">> => ret = << <<"a">> >>
        /\ arg.val = <<"a", ",", " ", "b">> => ret = << <<"a">>, <<"b">> >>
        /\ arg.val # Empty => Join(ret) = arg.val

\* The field "a, b" has been split into its two tags.
C15_Witness ==
    /\ applied.fn = "ParseTags"
    /\ arg.val = <<"a", ",", " ", "b">>
    /\ Len(ret) = 2

\* C16: translate_text lets no provider failure out: when the provider
\* raises, or answers without translations, the call returns the text it
\* was given (in process_submission.py, app.py and bot.py alike).
C16_TranslateFallsBack ==
    (applied.fn \in {"translate_text", "bot_translate_text"}
        /\ applied.provider # "ok")
    => ret = arg.val

\* The provider raised on a text that is not blank, and the text came back.
C16_Witness ==
    /\ applied.fn = "translate_text"
    /\ applied.provider = "raise"
    /\ ~IsBlank(arg.val)
    /\ ret = arg.val

\* C17: a call of translate_text makes at most one provider round trip, and
\* none for an empty or blank text, which it returns unchanged.
C17_AtMostOneRoundTrip ==
    applied.fn = "translate_text" =>
        /\ round_trips <= 1
        /\ IsBlank(arg.val) => round_trips = 0 /\ ret = arg.val

\* A translation that failed, of a text that is not blank, took one round trip.
C17_Witness ==
    /\ applied.fn = "translate_text"
    /\ applied.provider = "no_translations"
    /\ ~IsBlank(arg.val)
    /\ round_trips = 1

\* A call of EvidenceCollectionService.process_submission has just returned.
SvcCallReturned == program = "service" /\ pc = "handle" /\ result # None

\* C18: EvidenceCollectionService.process_submission always returns a result
\* with a success flag, and the result names each sub-step that failed: a
\* failed document append shows as docs_added false, a failed notification
\* as discord_sent false, a failed record build as a result without its
\* structured_data.
C18_ResultNamesFailedStep ==
    SvcCallReturned =>
        /\ "success" \in DOMAIN result
        /\ ~docs_result.val.value
            => "docs_added" \in DOMAIN result /\ ~result.docs_added
        /\ (discord_result # None /\ ~discord_result.val.value)
            => "discord_sent" \in DOMAIN result /\ ~result.discord_sent
        /\ ~result.success
            => {"docs_added", "discord_sent"} \subseteq DOMAIN result
               /\ "structured_data" \notin DOMAIN result

\* The symbol x occurs in the text.
HasSymbol(text, x) == \E i \in 1 .. Len(text) : text[i] = x

\* The symbols of sub occur in the text, one after the other.
IsSubstring(sub, text) ==
    \E i \in 0 .. Len(text) - Len(sub) : SubSeq(text, i + 1, i + Len(sub)) = sub

\* The functions that format a submission for a reader.
DocumentFunctions == {"add_to_docs"}

TextNotificationFunctions ==
    {"send_discord_notification", "svc_send_discord_notification"}

NotificationFunctions ==
    TextNotificationFunctions \cup {"process_evidence_notification"}

\* The submission the formatting function was called with.
FormattedData == extract_submission_data(arg.val).val

\* The value of the embed field of that name, the empty text without one.
EmbedValue(embed, name) ==
    LET at == {i \in 1 .. Len(embed.fields) : embed.fields[i].name = name}
    IN  IF at = {} THEN Empty ELSE embed.fields[CHOOSE i \in at : TRUE].value

\* The text the call produced that carries the tags: the tag line of the
\* document entry, the notification message, the Tags field of the embed.
RenderedTags ==
    CASE applied.fn = "add_to_docs" -> ret.content.val.tags
      [] applied.fn = "send_discord_notification" -> ret.payload
      [] applied.fn = "svc_send_discord_notification" -> ret.payload.val
      [] applied.fn = "process_evidence_notification" -> EmbedValue(ret, "Tags")

\* The marker of a tag group is in the text exactly when the group renders,
\* and then every tag of the group is there with its '#'.
GroupRendered(text, tags, marker) ==
    /\ HasSymbol(text, marker) <=> Renders(tags)
    /\ Renders(tags)
        => \A k \in 1 .. Len(tags) : IsSubstring(<<"#">> \o tags[k], text)

\* C19: in the document entry and in the notification alike, [AFF] and the
\* affirmative tags, each with '#', are rendered if and only if the tag
\* sequence is non-empty and its first tag is non-empty; [NEG] likewise; and
\* when both groups render a line break stands between them.
C19_TagRendering ==
    applied.fn \in DocumentFunctions \cup NotificationFunctions =>
        LET data == FormattedData
            text == RenderedTags
        IN  /\ GroupRendered(text, data.aff_tags, "[AFF]")
            /\ GroupRendered(text, data.neg_tags, "[NEG]")
            /\ (Renders(data.aff_tags) /\ Renders(data.neg_tags))
                => \E i \in 2 .. Len(text) :
                       text[i] = "[NEG]" /\ text[i - 1] = "\n"

\* The notification has an attachment line: the label and, after it, the
\* attachment or the sentinel (an embed: its Attachments field).
HasAttachmentLine(data) ==
    IF applied.fn \in TextNotificationFunctions
    THEN IsSubstring(<<"ATTACHMENT:", "\n">>
                     \o (IF data.attachment # Empty
                         THEN data.attachment ELSE <<"NONE">>),
                     IF applied.fn = "send_discord_notification"
                     THEN ret.payload ELSE ret.payload.val)
    ELSE /\ \E i \in 1 .. Len(ret.fields) : ret.fields[i].name = "Attachments"
         /\ data.attachment # Empty
             => EmbedValue(ret, "Attachments") = data.attachment

\* The notification has a remark line: the marker and the remark.
HasRemarkLine(data) ==
    IF applied.fn \in TextNotificationFunctions
    THEN HasSymbol(IF applied.fn = "send_discord_notification"
                   THEN ret.payload ELSE ret.payload.val, "*")
    ELSE \E i \in 1 .. Len(ret.fields) : ret.fields[i].name = "Remarks"

\* C20: every notification built for a submission has its attachment line,
\* with the sentinel when the attachment is empty, and has a remark line if
\* and only if the remark is non-empty.
C20_AttachmentAlwaysRemarkOptional ==
    applied.fn \in NotificationFunctions =>
        /\ HasAttachmentLine(FormattedData)
        /\ HasRemarkLine(FormattedData) <=> FormattedData.remark # Empty

\* C21: reading the export changes nothing: a step that produces an export,
\* the response of /api/data/structured or the file of save_structured_data,
\* leaves structured_data and last_processed_row as they were; the export
\* holds the accumulated sequence, and the count it reports is its length.
C21_ExportReadsOnly ==
    [][ export' # None /\ export' # export
        => /\ UNCHANGED <<structured_data, last_processed_row>>
           /\ \/ /\ program = "service"
                 /\ export'.val.structured_data = structured_data
                 /\ export'.val.count = Len(structured_data)
              \/ /\ program = "monitor"
                 /\ export'.val.file = structured_data ]_vars

C21_Witness ==
    /\ program = "service" /\ pc = "export"
    /\ export # None
    /\ export.val.count = 1
    /\ Len(structured_data) = 1

LatestFunctions == {"get_latest_submissions", "get_latest_evidence"}

\* The submission without the key row_number.
Unnumbered(submission) == [k \in SubmissionKeys |-> submission[k]]

\* What get_latest_submissions(limit) returned is at most limit submissions,
\* of data rows only, in ascending row order, numbered by their rows.
LatestWithinLimit ==
    /\ Len(ret) <= Max(applied.limit, 0)
    /\ \A k \in 1 .. Len(ret) :
         /\ ret[k].row_number \in 2 .. Len(arg.val)
         /\ extract_submission_data(arg.val[ret[k].row_number])
              = Some(Unnumbered(ret[k]))
    /\ \A j, k \in 1 .. Len(ret) :
         j < k => ret[j].row_number < ret[k].row_number

\* C22: for every sheet and every integer limit, get_latest_submissions
\* returns at most limit submissions, never the header row, in ascending row
\* order, each numbered by the 1-based index of its row; rows of fewer than
\* 11 fields are left out and the numbers of the others do not shift.
C22_LatestAtMostLimit ==
    (program = "functions" /\ applied.fn \in LatestFunctions)
        => LatestWithinLimit

\* The same for the limits that are at least 1.
C22_LatestPositiveLimit ==
    (program = "functions" /\ applied.fn \in LatestFunctions
        /\ applied.limit >= 1)
        => LatestWithinLimit

\* C23: cycles do not overlap and rows are handled one at a time: the row
\* indices passed to process_submission over the lifetime of the loop are
\* strictly increasing, within a cycle and across cycles, and a call starts
\* only when every earlier call has returned.
C23_CallsStrictlyIncreasing ==
    program = "monitor"
        => /\ \A j, k \in 1 .. Len(calls) :
                j < k => calls[j].row_number < calls[k].row_number
           /\ \A k \in 1 .. Len(calls) - 1 : calls[k].row_number \in returned

\* Two calls made by two cycles.
C23_Witness ==
    /\ program = "monitor"
    /\ Len(calls) = 2
    /\ calls[1].row_number = 2 /\ calls[2].row_number = 3
    /\ cycle_start_last = 2

\* C24: the offset is advanced only after every row of the delta has been
\* handled or skipped: last_processed_row is never at or beyond a row whose
\* call has started and not returned, it keeps the value it had when the
\* cycle began while the rows are handled, and the step that changes it
\* finds every row after the old offset returned.
C24_OffsetAdvancesAfterRows ==
    /\ [](program = "monitor"
            => /\ \A k \in 1 .. Len(calls) :
                    calls[k].row_number \notin returned
                        => last_processed_row < calls[k].row_number
               /\ pc \in InCycle => last_processed_row = cycle_start_last)
    /\ [][ (program = "monitor" /\ last_processed_row' # last_processed_row)
            => \A r \in NewRowRange(last_processed_row, Len(all_rows)) :
                  r \in returned ]_vars

\* A call of the second cycle is in progress and the offset is behind its row.
C24_Witness ==
    /\ program = "monitor" /\ pc = "discord"
    /\ row_index = 3
    /\ last_processed_row = 2
    /\ 3 \notin returned

\* The functions of the monitor that build the document entry and the
\* notification text.
BuilderFunctions == {"add_to_docs", "send_discord_notification"}

\* What the function applied last returns on the same arguments when the
\* translation provider does as p.
SameCallWith(p) ==
    LET data == extract_submission_data(arg.val).val
    IN  IF applied.fn = "add_to_docs"
        THEN add_to_docs(TestEntryNumber, data, p, FALSE)
        ELSE send_discord_notification(TestEntryNumber, data, p, applied.http)

\* C25: building the document entry and the notification text is pure:
\* add_to_docs and send_discord_notification make no call of the translation
\* provider, and on identical inputs they give identical outputs whatever
\* the provider would do.
C25_BuildersArePure ==
    (program = "functions" /\ applied.fn \in BuilderFunctions)
        => /\ round_trips = 0
           /\ \A p \in ProviderOutcomes : SameCallWith(p) = ret

\* The same for the rows whose quote is empty or blank, which translate_text
\* returns without a provider call.
C25_BuildersPureOnBlankQuote ==
    (program = "functions" /\ applied.fn \in BuilderFunctions
        /\ IsBlank(extract_submission_data(arg.val).val.quote))
        => /\ round_trips = 0
           /\ \A p \in ProviderOutcomes : SameCallWith(p) = ret

\* C26: a submission returned by extract_submission_data is never modified
\* afterwards: the submissions that get_latest_submissions hands on are, key
\* for key, what extract_submission_data returned for a row of the sheet.
C26_SubmissionNeverModified ==
    (program = "functions" /\ applied.fn \in LatestFunctions)
        => \A k \in 1 .. Len(ret) :
              /\ DOMAIN ret[k] = SubmissionKeys
              /\ \E r \in 1 .. Len(arg.val) :
                    extract_submission_data(arg.val[r]) = Some(ret[k])

\* The eleven extracted attributes keep their values: a submission handed on
\* differs from the extracted one by the key row_number only.
C26_AttributesKept ==
    (program = "functions" /\ applied.fn \in LatestFunctions)
        => \A k \in 1 .. Len(ret) :
              /\ DOMAIN ret[k] = SubmissionKeys \cup {"row_number"}
              /\ \E r \in 1 .. Len(arg.val) :
                    extract_submission_data(arg.val[r])
                        = Some(Unnumbered(ret[k]))

\* In the loop and in the service the submission of a call stays as extracted
\* until the call is over.
C26_KeptDuringCall ==
    [][ (submission_data # None /\ submission_data' # None
            /\ pc \notin {"extract", "idle", "handle"})
        => submission_data' = submission_data ]_vars

\* C27: in every state of the polling loop last_processed_row is 0 or at
\* least 2, never 1, and the header row, the row of index 1, is never passed
\* to process_submission.
C27_OffsetNeverOne ==
    program = "monitor"
        => /\ last_processed_row = 0 \/ last_processed_row >= 2
           /\ \A k \in 1 .. Len(calls) :
                 /\ calls[k].row_number >= 2
                 /\ calls[k].id # 0

\* A cycle has handled the first data row and set the offset to 2.
C27_Witness ==
    /\ program = "monitor" /\ pc = "sleep"
    /\ last_processed_row = 2
    /\ Len(calls) = 1 /\ calls[1].row_number = 2

\* Index of the first occurrence of the symbol x in the text.
IndexOf(text, x) ==
    CHOOSE i \in 1 .. Len(text) :
        text[i] = x /\ \A j \in 1 .. i - 1 : text[j] # x

\* The translated quote a document entry shows: what follows the line
\* "[English Translation]" of its table content.
DocumentTranslation(document) ==
    LET text == document.table_content
        i == IndexOf(text, "[English Translation]")
    IN  SubSeq(text, i + 2, Len(text))

\* The translated quote a notification shows: the fenced block after the
\* line "**English Translation:**".
NotificationTranslation(text) ==
    LET i == IndexOf(text, "**English Translation:**")
        rest == SubSeq(text, i + 3, Len(text))
    IN  SubSeq(rest, 1, IndexOf(rest, "[FENCE]") - 1)

\* The record appended for the row just processed.
BuiltRecord == structured_data[Len(structured_data)]

\* The document entry, if one was formatted, the notification and the record
\* of the row just processed show the same translated quote.
SameTranslatedQuote ==
    /\ NotificationTranslation(discord_result.val.payload)
         = BuiltRecord.quote.translated
    /\ BuiltDocument # None
         => DocumentTranslation(BuiltDocument.val) = BuiltRecord.quote.translated

\* C28: for each row the polling loop processes, the translated quote of the
\* document entry, of the notification and of the structured record are the
\* same value, whatever the translation provider does.
C28_OneTranslatedQuote ==
    (program = "monitor" /\ RecordJustBuilt) => SameTranslatedQuote

\* The same for the rows whose quote is empty or blank, for which
\* translate_text does not call the provider.
C28_OneTranslatedQuoteWhenBlank ==
    (program = "monitor" /\ RecordJustBuilt
        /\ IsBlank(BuiltRecord.quote.original))
        => SameTranslatedQuote

\* A row of blank quote has been processed.
C28_BlankQuoteProcessed ==
    /\ program = "monitor" /\ RecordJustBuilt
    /\ IsBlank(BuiltRecord.quote.original)
    /\ BuiltDocument # None

\* C29: after any sequence of calls of the service's process, batch-process
\* and form-post operations the ids of the records of structured_data are
\* pairwise distinct.
C29_RecordIdsDistinct ==
    \A j, k \in 1 .. Len(structured_data) :
        j # k => structured_data[j].id # structured_data[k].id

====
